---- MODULE Spec2Model ----
(***************************************************************************)
(* Banking_Rag: upload/index, analyze (retrieve -> detect_errors ->        *)
(* generate_report) and delete of per-document FAISS indexes.              *)
(*                                                                         *)
(* An LLM response is a sequence of lexical tokens:                        *)
(*   "["  "]"  ","   the JSON array punctuation                            *)
(*   "O"  a complete Finding object literal {"term":..,"error":..,         *)
(*        "location":..} whose values are plain strings                    *)
(*   "B"  an object literal with plain values that lacks one of the three  *)
(*        fields, e.g. {"term":"KYC"}                                      *)
(*   "W"  the opening of a wrapper object,  {"errors":                     *)
(*   "}"  a closing brace                                                  *)
(*   "p"  a run of prose (no brackets, braces, commas or blanks)           *)
(*   "w"  a run of whitespace                                              *)
(***************************************************************************)
EXTENDS Integers, Sequences, FiniteSets, TLC

Tokens == {"[", "]", ",", "O", "B", "W", "}", "p", "w"}

\* Longest LLM response enumerated exhaustively, in tokens.
MaxRespLen == 4

RECURSIVE SeqsUpTo(_, _)
SeqsUpTo(S, n) ==
    IF n = 0 THEN {<<>>}
    ELSE LET shorter == SeqsUpTo(S, n - 1)
         IN shorter \cup {Append(s, t) : s \in {x \in shorter : Len(x) = n - 1}, t \in S}

Min(S) == CHOOSE x \in S : \A y \in S : x <= y

----------------------------------------------------------------------------
\* str.strip() and the skipping of blanks in json.loads and in the pattern

RECURSIVE LStrip(_)
LStrip(s) == IF s # <<>> /\ Head(s) = "w" THEN LStrip(Tail(s)) ELSE s

RECURSIVE RStrip(_)
RStrip(s) ==
    IF s # <<>> /\ s[Len(s)] = "w" THEN RStrip(SubSeq(s, 1, Len(s) - 1)) ELSE s

strip(s) == RStrip(LStrip(s))

RECURSIVE SkipWs(_, _)
SkipWs(s, i) == IF i <= Len(s) /\ s[i] = "w" THEN SkipWs(s, i + 1) ELSE i

----------------------------------------------------------------------------
(* json.loads on a token sequence.  A parsed value is a dict (complete     *)
(* says whether it has term, error and location) or a list of values.      *)

Dict(complete) == [kind |-> "dict", complete |-> complete, items |-> <<>>]
List(items) == [kind |-> "list", complete |-> FALSE, items |-> items]
NoParse == [ok |-> FALSE, next |-> 0, val |-> List(<<>>)]
Parsed(next, val) == [ok |-> TRUE, next |-> next, val |-> val]

RECURSIVE ParseValue(_, _), ParseItems(_, _, _)
ParseValue(s, i) ==
    IF i > Len(s) THEN NoParse
    ELSE CASE s[i] = "O" -> Parsed(i + 1, Dict(TRUE))
           [] s[i] = "B" -> Parsed(i + 1, Dict(FALSE))
           [] s[i] = "W" ->
                LET v == ParseValue(s, SkipWs(s, i + 1))
                IN IF ~v.ok THEN NoParse
                   ELSE LET j == SkipWs(s, v.next)
                        IN IF j <= Len(s) /\ s[j] = "}"
                           THEN Parsed(j + 1, Dict(FALSE))
                           ELSE NoParse
           [] s[i] = "[" ->
                LET j == SkipWs(s, i + 1)
                IN IF j <= Len(s) /\ s[j] = "]"
                   THEN Parsed(j + 1, List(<<>>))
                   ELSE ParseItems(s, j, <<>>)
           [] OTHER -> NoParse

ParseItems(s, i, acc) ==
    LET v == ParseValue(s, i)
    IN IF ~v.ok THEN NoParse
       ELSE LET j == SkipWs(s, v.next)
            IN IF j > Len(s) THEN NoParse
               ELSE IF s[j] = "]" THEN Parsed(j + 1, List(Append(acc, v.val)))
               ELSE IF s[j] = "," THEN ParseItems(s, SkipWs(s, j + 1), Append(acc, v.val))
               ELSE NoParse

\* ok = FALSE stands for json.JSONDecodeError
json_loads(s) ==
    LET v == ParseValue(s, SkipWs(s, 1))
    IN IF v.ok /\ SkipWs(s, v.next) = Len(s) + 1 THEN v ELSE NoParse

----------------------------------------------------------------------------
\* re.match of the fallback pattern with re.DOTALL: an opening bracket, blanks,
\* any number of groups "brace, lazy any text, brace, blanks, comma, blanks",
\* one more "brace, lazy any text, brace", blanks, a closing bracket; or else
\* the two characters of the empty list.  The match is anchored at the start
\* of s and found in the engine's backtracking order (first alternative
\* first, the group greedy, the any-text lazy).  The result is the index of
\* the last token of the match, 0 for no match.

StartsBrace(t) == t \in {"O", "B", "W"}
EndsBrace(t) == t \in {"O", "B", "}"}

\* a brace pair opened at token i can close at token j
Closes(s, i, j) == EndsBrace(s[j]) /\ (j > i \/ s[i] \in {"O", "B"})

\* the last brace pair, blanks and the closing bracket, from token i
MatchTail(s, i) ==
    LET ends == {j \in i..Len(s) :
                    /\ Closes(s, i, j)
                    /\ LET k == SkipWs(s, j + 1) IN k <= Len(s) /\ s[k] = "]"}
    IN IF ends = {} THEN 0 ELSE SkipWs(s, Min(ends) + 1)

\* the greedy groups followed by the tail, from token i
RECURSIVE MatchGroup(_, _), TryIter(_, _, _)
TryIter(s, i, j) ==
    IF j > Len(s) THEN 0
    ELSE LET k == SkipWs(s, j + 1)
             r == IF Closes(s, i, j) /\ k <= Len(s) /\ s[k] = ","
                  THEN MatchGroup(s, SkipWs(s, k + 1))
                  ELSE 0
         IN IF r # 0 THEN r ELSE TryIter(s, i, j + 1)

MatchGroup(s, i) ==
    IF i > Len(s) \/ ~StartsBrace(s[i]) THEN 0
    ELSE LET r == TryIter(s, i, i)
         IN IF r # 0 THEN r ELSE MatchTail(s, i)

re_match(s) ==
    IF s = <<>> \/ s[1] # "[" THEN 0
    ELSE LET r == MatchGroup(s, SkipWs(s, 2))
         IN IF r # 0 THEN r
            ELSE IF Len(s) >= 2 /\ s[2] = "]" THEN 2 ELSE 0

----------------------------------------------------------------------------
(* The response handling of detect_errors, from the provider's content to  *)
(* the findings list or the raised error.                                  *)

Finding == Dict(TRUE)

Raised(tier, err) == [ok |-> FALSE, errors |-> <<>>, tier |-> tier, err |-> err]
Returned(tier, errors) == [ok |-> TRUE, errors |-> errors, tier |-> tier, err |-> ""]

\* the loop skipping the elements it should reject
ValidateErrors_DropBad(tier, errors) ==
    Returned(tier, SelectSeq(errors, LAMBDA e : e.kind = "dict" /\ e.complete))

\* the loop over the parsed list
ValidateErrors(tier, errors) ==
    IF \E n \in 1..Len(errors) : errors[n].kind # "dict" \/ ~errors[n].complete
    THEN Raised(tier, "Malformed error object in response")
    ELSE Returned(tier, errors)

\* a parse whose fallback also takes the responses that are JSON but no list
ParseResponse_FallbackOnNonList(content) ==
    IF content = <<>> THEN Raised("none", "Empty response from Groq API")
    ELSE LET json_str == strip(content)
             direct == json_loads(json_str)
         IN IF direct.ok /\ direct.val.kind = "list"
            THEN ValidateErrors("direct", direct.val.items)
            ELSE LET e == re_match(json_str)
                 IN IF e = 0
                    THEN Raised("fallback", "No valid JSON list found in response")
                    ELSE LET again == json_loads(SubSeq(json_str, 1, e))
                         IN IF ~again.ok
                            THEN Raised("fallback", "JSONDecodeError")
                            ELSE ValidateErrors("fallback", again.val.items)

ParseResponse(content) ==
    IF content = <<>> THEN Raised("none", "Empty response from Groq API")
    ELSE LET json_str == strip(content)
             direct == json_loads(json_str)
         IN IF direct.ok
            THEN IF direct.val.kind # "list"
                 THEN Raised("direct", "Response is not a JSON list")
                 ELSE ValidateErrors("direct", direct.val.items)
            ELSE LET e == re_match(json_str)
                 IN IF e = 0
                    THEN Raised("fallback", "No valid JSON list found in response")
                    ELSE LET again == json_loads(SubSeq(json_str, 1, e))
                         IN IF ~again.ok
                            THEN Raised("fallback", "JSONDecodeError")
                            ELSE ValidateErrors("fallback", again.val.items)

----------------------------------------------------------------------------
\* Bounds of the model and constants of the program.

\* Upload requests that get a file_id (uuid4: every upload a fresh one).
MaxFiles == 2
\* Most chunks the splitter yields for one document.
MaxChunks == 2

\* similarity_search(query, k=5, ...)
K == 5
\* for attempt in range(3)
MaxAttempts == 3
\* len(content) < 100
MinUploadSize == 100
\* await asyncio.sleep(1)
RetryDelay == 1

\* The ids uploads are given, and the ids a client may name: those and one
\* (the first) that no upload is ever given.
UploadIds == 1..MaxFiles
FileIds == 0..MaxFiles

\* QueryInput.query: its default and a caller's own text
Queries == {"Analyze document for technical errors related to key banking terms.", "custom"}

KEY_TERMS == <<"KYC", "AML", "Fraud Detection", "Transaction Monitoring", "Compliance">>

----------------------------------------------------------------------------
\* Documents and the persisted index.  page_content is 0 for the empty string,
\* negative for text of whitespace only and n > 0 for the text of the n-th
\* chunk of an upload (clean_text leaves it stripped and non-empty).  file_id
\* is the metadata entry, negative when the metadata has no such key.

Doc(page_content, file_id) == [page_content |-> page_content, file_id |-> file_id]
IsBlankText(page_content) == page_content <= 0

\* chunk_documents: one Document per chunk of the splitter, all sharing the
\* metadata of the extracted document (file_id = stem of the temporary path)
chunk_documents(file_id, n) == [i \in 1..n |-> Doc(i, file_id)]

\* FAISS.from_texts([""], embeddings): a store holding one empty text
initialize_vector_store == <<Doc(0, -1)>>

\* What is at FAISS_INDEX_PATH / "<file_id>.faiss": nothing, or the directory
\* save_local makes, with its files index.faiss and index.pkl (<<>> for a file
\* that is not there; a written file holds at least the empty text).
NoEntry == [kind |-> "none", faiss |-> <<>>, pkl |-> <<>>]
DirEntry(faiss, pkl) == [kind |-> "dir", faiss |-> faiss, pkl |-> pkl]

\* Path.exists()
exists(entry) == entry.kind # "none"

\* Path.unlink(): removes a file, raises on a directory or a missing path
unlink(entry) ==
    IF entry.kind = "file" THEN [raised |-> FALSE, entry |-> NoEntry]
    ELSE [raised |-> TRUE, entry |-> entry]

\* FAISS.load_local needs both files of the directory
Loadable(entry) == entry.kind = "dir" /\ entry.faiss # <<>> /\ entry.pkl # <<>>

\* index_documents up to the vectors: tag the chunks, add them to the store
add_documents(vector_store, chunks, file_id) ==
    vector_store \o [i \in 1..Len(chunks) |-> Doc(chunks[i].page_content, file_id)]

VARIABLES
    faiss_index,   \* FAISS_INDEX_PATH: file_id -> entry
    temp_files,    \* TEMP_DIR: the uploads <file_id>.pdf present
    reports,       \* TEMP_DIR: the reports report_<file_id>.pdf present
    up,            \* the upload requests, by the file_id they are given
    run,           \* the analysis request and its State
    http           \* the response to the latest request; none while one is served

vars == <<faiss_index, temp_files, reports, up, run, http>>

----------------------------------------------------------------------------
\* Responses

NoResponse ==
    [op |-> "none", file_id |-> 0, status |-> 0, cause |-> "", errors |-> <<>>,
     report_path |-> <<>>, existed |-> FALSE, indexed |-> FALSE, again |-> FALSE,
     detail |-> ""]

UploadResponse(file_id, status, cause) ==
    [NoResponse EXCEPT !.op = "upload", !.file_id = file_id, !.status = status,
                       !.cause = cause]

\* The conditions the upload handler raises a 400 for
InvalidInputCauses == {"unsupported_type", "too_small", "no_text", "no_chunks"}

----------------------------------------------------------------------------
\* upload_file

\* errs: the error of each failed indexing attempt so far; waited: the time
\* slept between attempts; detail: the exception the handler reports.
IdleUpload ==
    [pc |-> "idle", attempt |-> 0, n |-> 0, status |-> 0, cause |-> "",
     errs |-> <<>>, waited |-> 0, detail |-> ""]
DoneUpload == [IdleUpload EXCEPT !.pc = "done"]

\* twin: for each text a caller may send as the query, the State and the
\* failure of the run that is given that query and otherwise the same
\* request, index and provider behaviour as this one.
IdleRun ==
    [pc |-> "idle",
     state |-> [file_id |-> 0, query |-> "", context |-> <<>>, errors |-> <<>>,
                report |-> "", report_path |-> <<>>],
     trace |-> <<>>, calls |-> <<>>, response |-> <<>>, error |-> "",
     had_index |-> FALSE,
     twin |-> [q \in Queries |->
                 [state |-> [file_id |-> 0, query |-> "", context |-> <<>>,
                             errors |-> <<>>, report |-> "", report_path |-> <<>>],
                  error |-> ""]]]

\* No request is being served.
Quiet ==
    /\ \A u \in UploadIds : up[u].pc \in {"idle", "done"}
    /\ run.pc \in {"idle", "responded"}

\* A new request: the state of the one before is gone.
Forget == /\ run' = IdleRun
          /\ http' = NoResponse

\* except Exception as e: raise HTTPException(status_code=500, ...)
\* catches the HTTPException(400) raised inside the try as well.
upload_except(status) == 500

\* a raise that leaves the handler without the finally clause
Abort_NoCleanup(u, status, cause) ==
    up' = [up EXCEPT ![u] = [@ EXCEPT !.pc = "done",
                                      !.status = upload_except(status),
                                      !.cause = cause]]

\* raise inside the try block: the handler's status, then finally cleanup
Abort(u, status, cause) ==
    up' = [up EXCEPT ![u] = [@ EXCEPT !.pc = "cleanup",
                                      !.status = upload_except(status),
                                      !.cause = cause]]

\* filename check and uuid4
UploadBegin(u) ==
    /\ up[u].pc = "idle"
    /\ \A v \in UploadIds : v < u => up[v].pc # "idle"
    /\ \E pdf \in BOOLEAN :
         IF ~pdf
         THEN /\ http' = UploadResponse(0, 400, "unsupported_type")
              /\ run' = IdleRun
              /\ UNCHANGED up
         ELSE /\ Forget
              /\ up' = [up EXCEPT ![u] = [IdleUpload EXCEPT !.pc = "open"]]
    /\ UNCHANGED <<faiss_index, temp_files, reports>>

\* aiofiles.open(file_path, "wb"), file.read(), the size check, f.write
UploadSave(u) ==
    /\ up[u].pc = "open"
    /\ temp_files' = temp_files \cup {u}
    /\ \E size \in {0, MinUploadSize - 1, MinUploadSize} :
         IF size = 0 \/ size < MinUploadSize
         THEN Abort(u, 400, "too_small")
         ELSE up' = [up EXCEPT ![u].pc = "extract"]
    /\ UNCHANGED <<faiss_index, reports, run, http>>

\* extract_pdf_content: [] when extract_text_from_pdf gives None
UploadExtract(u) ==
    /\ up[u].pc = "extract"
    /\ \E text \in BOOLEAN :
         IF ~text
         THEN Abort(u, 400, "no_text")
         ELSE up' = [up EXCEPT ![u].pc = "chunk"]
    /\ UNCHANGED <<faiss_index, temp_files, reports, run, http>>

\* chunk_documents in a worker thread
UploadChunk(u) ==
    /\ up[u].pc = "chunk"
    /\ \E n \in 0..MaxChunks :
         IF n = 0
         THEN Abort(u, 400, "no_chunks")
         ELSE up' = [up EXCEPT ![u].pc = "index", ![u].n = n]
    /\ UNCHANGED <<faiss_index, temp_files, reports, run, http>>

\* the loop re-raising one attempt late
AttemptFailed_OneMore(u, err) ==
    IF up[u].attempt = MaxAttempts
    THEN up' = [up EXCEPT ![u] = [@ EXCEPT !.pc = "cleanup",
                                           !.status = upload_except(500),
                                           !.cause = "indexing",
                                           !.errs = Append(@, err),
                                           !.detail = err]]
    ELSE up' = [up EXCEPT ![u] = [@ EXCEPT !.pc = "sleep", !.errs = Append(@, err)]]

\* except in the retry loop: re-raise e on the last attempt (caught by the
\* handler's except like every raise in the try), else sleep(1)
AttemptFailed(u, err) ==
    IF up[u].attempt = MaxAttempts - 1
    THEN up' = [up EXCEPT ![u] = [@ EXCEPT !.pc = "cleanup",
                                           !.status = upload_except(500),
                                           !.cause = "indexing",
                                           !.errs = Append(@, err),
                                           !.detail = err]]
    ELSE up' = [up EXCEPT ![u] = [@ EXCEPT !.pc = "sleep", !.errs = Append(@, err)]]

\* an attempt that saves under one path for every upload
UploadIndex_SharedPath(u) ==
    /\ up[u].pc = "index"
    /\ \E outcome \in {"provider", "mkdir", "ok"} :
         LET store == add_documents(initialize_vector_store,
                                    chunk_documents(u, up[u].n), u)
             old == faiss_index[1]
         IN CASE outcome = "provider" ->
                   /\ AttemptFailed(u, "provider")
                   /\ UNCHANGED faiss_index
              [] outcome = "mkdir" ->
                   /\ AttemptFailed(u, "mkdir")
                   /\ faiss_index' = [faiss_index EXCEPT ![1] = DirEntry(old.faiss, old.pkl)]
              [] outcome = "ok" ->
                   /\ up' = [up EXCEPT ![u].pc = "persist"]
                   /\ faiss_index' = [faiss_index EXCEPT ![1] = DirEntry(store, old.pkl)]
    /\ UNCHANGED <<temp_files, reports, run, http>>

\* One attempt: initialize_vector_store, then index_documents up to the first
\* file of save_local (mkdir, index.faiss).  It can fail before anything is
\* on disk ("provider"), after the mkdir ("mkdir") or not at all ("ok");
\* the write of index.pkl can fail too ("pkl").
UploadIndex(u) ==
    /\ up[u].pc = "index"
    /\ \E outcome \in {"provider", "mkdir", "ok"} :
         LET store == add_documents(initialize_vector_store,
                                    chunk_documents(u, up[u].n), u)
             old == faiss_index[u]
         IN CASE outcome = "provider" ->
                   /\ AttemptFailed(u, "provider")
                   /\ UNCHANGED faiss_index
              [] outcome = "mkdir" ->
                   /\ AttemptFailed(u, "mkdir")
                   /\ faiss_index' = [faiss_index EXCEPT ![u] = DirEntry(old.faiss, old.pkl)]
              [] outcome = "ok" ->
                   /\ up' = [up EXCEPT ![u].pc = "persist"]
                   /\ faiss_index' = [faiss_index EXCEPT ![u] = DirEntry(store, old.pkl)]
    /\ UNCHANGED <<temp_files, reports, run, http>>

\* The second file of save_local (index.pkl), then break
UploadPersist(u) ==
    /\ up[u].pc = "persist"
    /\ \E ok \in BOOLEAN :
         IF ok
         THEN /\ faiss_index' = [faiss_index EXCEPT ![u].pkl = faiss_index[u].faiss]
              /\ up' = [up EXCEPT ![u].pc = "cleanup", ![u].status = 200]
         ELSE /\ AttemptFailed(u, "pkl")
              /\ UNCHANGED faiss_index
    /\ UNCHANGED <<temp_files, reports, run, http>>

\* await asyncio.sleep(1), next attempt
UploadSleep(u) ==
    /\ up[u].pc = "sleep"
    /\ up' = [up EXCEPT ![u].pc = "index", ![u].attempt = @ + 1,
                         ![u].waited = @ + RetryDelay]
    /\ UNCHANGED <<faiss_index, temp_files, reports, run, http>>

\* finally: cleanup_file, then the response
UploadCleanup(u) ==
    /\ up[u].pc = "cleanup"
    /\ temp_files' = temp_files \ {u}
    /\ http' = [UploadResponse(u, up[u].status, up[u].cause)
                   EXCEPT !.detail = up[u].detail]
    /\ up' = [up EXCEPT ![u] = DoneUpload]
    /\ UNCHANGED <<faiss_index, reports, run>>

----------------------------------------------------------------------------
\* delete_document

\* the handler on what is at the index path: the status and what is left
delete_document(entry) ==
    IF exists(entry)
    THEN LET r == unlink(entry)
         IN [status |-> IF r.raised THEN 500 ELSE 200, entry |-> r.entry]
    ELSE [status |-> 200, entry |-> entry]

\* a remove that clears the report of the document as well
DeleteDocument_RemovesReport(f) ==
    LET r == delete_document(faiss_index[f])
    IN /\ faiss_index' = [faiss_index EXCEPT ![f] = r.entry]
       /\ http' = [NoResponse EXCEPT !.op = "delete", !.file_id = f,
                                     !.status = r.status,
                                     !.existed = exists(faiss_index[f]),
                                     !.indexed = Loadable(faiss_index[f]),
                                     !.again = (http.op = "delete" /\ http.file_id = f)]
       /\ run' = IdleRun
       /\ reports' = reports \ {f}
       /\ UNCHANGED <<temp_files, up>>

DeleteDocument(f) ==
    LET r == delete_document(faiss_index[f])
    IN /\ faiss_index' = [faiss_index EXCEPT ![f] = r.entry]
       /\ http' = [NoResponse EXCEPT !.op = "delete", !.file_id = f,
                                     !.status = r.status,
                                     !.existed = exists(faiss_index[f]),
                                     !.indexed = Loadable(faiss_index[f]),
                                     !.again = (http.op = "delete" /\ http.file_id = f)]
       /\ run' = IdleRun
       /\ UNCHANGED <<temp_files, reports, up>>

----------------------------------------------------------------------------
\* The pipeline: State, the three nodes and the graph.

\* What a node gives back: the error it raised ("" for none), the partial
\* update of the State it returned, the provider calls it made.
Raise(error, calls) == [raised |-> error, update |-> <<>>, calls |-> calls]
Return(update, calls) == [raised |-> "", update |-> update, calls |-> calls]

\* LangGraph merges a node's partial update into the State
Merge(state, update) ==
    [f \in DOMAIN state |-> IF f \in DOMAIN update THEN update[f] ELSE state[f]]

\* similarity_search(query, k, filter={"file_id": file_id}) on a loaded store:
\* the first m stored documents whose metadata passes the filter; how many
\* the search finds (m, at most k) is the library's.
Matching(docs, file_id) == SelectSeq(docs, LAMBDA d : d.file_id = file_id)
\* a search that leaves the metadata filter out
similarity_search_NoFilter(docs, m, file_id) == SubSeq(docs, 1, m)
similarity_search(docs, m, file_id) == SubSeq(Matching(docs, file_id), 1, m)

\* The query retrieve searches with: built from KEY_TERMS alone.
\* a retrieval that searches with the caller's text
retrieval_query_FromCaller(state) == <<state.query>>

retrieval_query(state) == <<"Identify technical errors related to: ", KEY_TERMS>>

\* The texts a search can be made with: the caller's and the one retrieve
\* builds.  What the embedding model and the index make of a text is the
\* provider's behaviour: hits, the number of documents found for each text.
SearchTexts == {<<q>> : q \in Queries} \cup {retrieval_query(IdleRun.state)}

\* retrieve without its own existence check: load_vector_store builds the
\* embedding model before it looks for the index
retrieve_LoadFirst(state, disk, provider_ok, hits) ==
    LET entry == disk[state.file_id]
    IN IF ~provider_ok
       THEN Raise("ProviderFailure", <<"HuggingFaceEmbeddings">>)
       ELSE IF ~exists(entry)
       THEN Raise("FileNotFoundError", <<"HuggingFaceEmbeddings">>)
       ELSE IF ~Loadable(entry)
       THEN Raise("StorageFailure", <<"HuggingFaceEmbeddings">>)
       ELSE Return([context |-> similarity_search(entry.pkl, hits[retrieval_query(state)], state.file_id)],
                   <<"HuggingFaceEmbeddings", "embed_query">>)

\* retrieve looking for the index under a path save_local never writes
retrieve_NeverFinds(state, disk, provider_ok, hits) ==
    Raise("FileNotFoundError", <<>>)

\* retrieve: disk is FAISS_INDEX_PATH; provider_ok says whether the embedding
\* model (load_vector_store, the query's embedding) works; hits as above.
retrieve(state, disk, provider_ok, hits) ==
    LET entry == disk[state.file_id]
    IN IF ~exists(entry)
       THEN Raise("FileNotFoundError", <<>>)
       ELSE IF ~provider_ok
       THEN Raise("ProviderFailure", <<"HuggingFaceEmbeddings">>)
       ELSE IF ~Loadable(entry)
       THEN Raise("StorageFailure", <<"HuggingFaceEmbeddings">>)
       ELSE Return([context |-> similarity_search(entry.pkl, hits[retrieval_query(state)], state.file_id)],
                   <<"HuggingFaceEmbeddings", "embed_query">>)

\* the emptiness test without the strip()
BlankContext_NoStrip(context) ==
    \A i \in 1..Len(context) : context[i].page_content = 0

\* "\n\n".join(doc.page_content for doc in state.context).strip() is empty
BlankContext(context) ==
    \A i \in 1..Len(context) : IsBlankText(context[i].page_content)

\* detect_errors that falls back to no findings when the response is unusable
detect_errors_SilentEmpty(state, provider_ok, content) ==
    IF \A i \in 1..Len(state.context) : IsBlankText(state.context[i].page_content)
    THEN Return([errors |-> <<>>], <<>>)
    ELSE IF ~provider_ok
    THEN Raise("ProviderFailure", <<"llm.invoke">>)
    ELSE LET r == ParseResponse(content)
         IN Return([errors |-> r.errors], <<"llm.invoke">>)

\* detect_errors that treats an empty context as an error
detect_errors_RaiseOnEmpty(state, provider_ok, content) ==
    IF \A i \in 1..Len(state.context) : IsBlankText(state.context[i].page_content)
    THEN Raise("No context available", <<>>)
    ELSE IF ~provider_ok
    THEN Raise("ProviderFailure", <<"llm.invoke">>)
    ELSE LET r == ParseResponse(content)
         IN IF r.ok THEN Return([errors |-> r.errors], <<"llm.invoke">>)
            ELSE Raise(r.err, <<"llm.invoke">>)

\* detect_errors asking the model again when the response is unusable
detect_errors_AskAgain(state, provider_ok, content) ==
    IF \A i \in 1..Len(state.context) : IsBlankText(state.context[i].page_content)
    THEN Return([errors |-> <<>>], <<>>)
    ELSE IF ~provider_ok
    THEN Raise("ProviderFailure", <<"llm.invoke">>)
    ELSE LET r == ParseResponse(content)
         IN IF r.ok THEN Return([errors |-> r.errors], <<"llm.invoke">>)
            ELSE Raise(r.err, <<"llm.invoke", "llm.invoke">>)

\* detect_errors: provider_ok says whether llm.invoke returns at all, content
\* is response.content
detect_errors(state, provider_ok, content) ==
    IF BlankContext(state.context)
    THEN Return([errors |-> <<>>], <<>>)
    ELSE IF ~provider_ok
    THEN Raise("ProviderFailure", <<"llm.invoke">>)
    ELSE LET r == ParseResponse(content)
         IN IF r.ok THEN Return([errors |-> r.errors], <<"llm.invoke">>)
            ELSE Raise(r.err, <<"llm.invoke">>)

\* TEMP_DIR / f"report_{state.file_id}.pdf"
ReportPath(file_id) == <<"temp", "report", file_id>>

\* generate_report: content is response.content ("" or the report's text),
\* rendered says whether generate_pdf_report wrote the file
\* generate_report handing back an update that resets the findings too
generate_report_ClearsErrors(state, provider_ok, content, rendered) ==
    IF ~provider_ok
    THEN Raise("ProviderFailure", <<"llm.invoke">>)
    ELSE IF content = ""
    THEN Raise("Empty report response from Groq API", <<"llm.invoke">>)
    ELSE IF ~rendered
    THEN Raise("RenderFailure", <<"llm.invoke">>)
    ELSE Return([report |-> content, report_path |-> ReportPath(state.file_id),
                 errors |-> <<>>],
                <<"llm.invoke">>)

generate_report(state, provider_ok, content, rendered) ==
    IF ~provider_ok
    THEN Raise("ProviderFailure", <<"llm.invoke">>)
    ELSE IF content = ""
    THEN Raise("Empty report response from Groq API", <<"llm.invoke">>)
    ELSE IF ~rendered
    THEN Raise("RenderFailure", <<"llm.invoke">>)
    ELSE Return([report |-> content, report_path |-> ReportPath(state.file_id)],
                <<"llm.invoke">>)

\* a graph wired past detect_errors
Edges_SkipDetect ==
    {<<"START", "retrieve">>, <<"retrieve", "generate_report">>,
     <<"detect_errors", "generate_report">>}

\* build_graph: the edges added to the StateGraph
Edges ==
    {<<"START", "retrieve">>, <<"retrieve", "detect_errors">>,
     <<"detect_errors", "generate_report">>}

\* The node that runs after node: a node without an outgoing edge ends the run.
NextNode(node) ==
    IF \E e \in Edges : e[1] = node
    THEN (CHOOSE e \in Edges : e[1] = node)[2]
    ELSE "END"

\* A node has run: merge its update and go on, or stop at the error it raised.
Ran(node, r) ==
    [run EXCEPT !.pc = IF r.raised = "" THEN NextNode(node) ELSE "raised",
                !.state = Merge(run.state, r.update),
                !.trace = Append(run.trace, node),
                !.calls = run.calls \o r.calls,
                !.error = r.raised]

\* The same node run on a twin: nothing once the twin has failed
TwinRan(t, r) ==
    IF t.error # "" THEN t
    ELSE [state |-> Merge(t.state, r.update), error |-> r.raised]

\* analyze_document: the initial State handed to graph.ainvoke
AnalyzeBegin(f, q) ==
    /\ run' = [IdleRun EXCEPT !.pc = NextNode("START"),
                              !.state = [IdleRun.state EXCEPT !.file_id = f, !.query = q],
                              !.twin = [p \in Queries |->
                                  [state |-> [IdleRun.state EXCEPT !.file_id = f,
                                                                   !.query = p],
                                   error |-> ""]]]
    /\ http' = NoResponse
    /\ UNCHANGED <<faiss_index, temp_files, reports, up>>

Retrieve ==
    /\ run.pc = "retrieve"
    /\ \E provider_ok \in BOOLEAN, hits \in [SearchTexts -> 0..K] :
         /\ Loadable(faiss_index[run.state.file_id]) =>
               \A t \in SearchTexts :
                  hits[t] <= Len(Matching(faiss_index[run.state.file_id].pkl,
                                          run.state.file_id))
         /\ ~Loadable(faiss_index[run.state.file_id]) => hits = [t \in SearchTexts |-> 0]
         /\ run' = [Ran("retrieve", retrieve(run.state, faiss_index, provider_ok, hits))
                       EXCEPT !.had_index = exists(faiss_index[run.state.file_id]),
                              !.twin = [q \in Queries |->
                                  TwinRan(run.twin[q],
                                          retrieve(run.twin[q].state, faiss_index,
                                                   provider_ok, hits))]]
    /\ UNCHANGED <<faiss_index, temp_files, reports, up, http>>

DetectErrors(contents) ==
    /\ run.pc = "detect_errors"
    /\ \E provider_ok \in BOOLEAN, content \in contents :
         run' = [Ran("detect_errors", detect_errors(run.state, provider_ok, content))
                    EXCEPT !.response = IF provider_ok /\ ~BlankContext(run.state.context)
                                        THEN content ELSE <<>>,
                           !.twin = [q \in Queries |->
                               TwinRan(run.twin[q],
                                       detect_errors(run.twin[q].state, provider_ok,
                                                     content))]]
    /\ UNCHANGED <<faiss_index, temp_files, reports, up, http>>

GenerateReport ==
    /\ run.pc = "generate_report"
    /\ \E provider_ok \in BOOLEAN, content \in {"", "report"}, rendered \in BOOLEAN :
         LET r == generate_report(run.state, provider_ok, content, rendered)
         IN /\ run' = [Ran("generate_report", r)
                          EXCEPT !.twin = [q \in Queries |->
                              TwinRan(run.twin[q],
                                      generate_report(run.twin[q].state, provider_ok,
                                                      content, rendered))]]
            /\ reports' = IF r.raised = "" THEN reports \cup {run.state.file_id}
                          ELSE reports
    /\ UNCHANGED <<faiss_index, temp_files, up, http>>

\* a handler that answers with whatever the State holds
analyze_response_AlwaysOk(r) ==
    [NoResponse EXCEPT !.op = "analyze", !.file_id = r.state.file_id,
                       !.status = 200, !.errors = r.state.errors,
                       !.report_path = r.state.report_path]

\* analyze_document: the QueryResponse of a finished run, or the 500 of its
\* except clause
analyze_response(r) ==
    IF r.pc = "END"
    THEN [NoResponse EXCEPT !.op = "analyze", !.file_id = r.state.file_id,
                            !.status = 200, !.errors = r.state.errors,
                            !.report_path = r.state.report_path]
    ELSE [NoResponse EXCEPT !.op = "analyze", !.file_id = r.state.file_id,
                            !.status = 500, !.cause = r.error]

AnalyzeRespond ==
    /\ run.pc \in {"END", "raised"}
    /\ http' = analyze_response(run)
    /\ run' = [run EXCEPT !.pc = "responded"]
    /\ UNCHANGED <<faiss_index, temp_files, reports, up>>

----------------------------------------------------------------------------
\* The responses of the model the whole system is run with: one of each kind
\* detect_errors tells apart.
SampleResponses ==
    {<<>>,
     <<"[", "]">>,
     <<"[", "O", "]">>,
     <<"p", "[", "O", "]">>,
     <<"[", "O", "]", "p">>,
     <<"[", "B", "]">>}

\* Every response of at most MaxRespLen tokens
Responses == SeqsUpTo(Tokens, MaxRespLen)

\* Longer responses: arrays that mix complete findings with elements the
\* validation rejects, in both orders, two complete findings, and an object
\* wrapping an array of findings.
LongResponses ==
    {<<"[", "O", ",", "B", "]">>,
     <<"[", "B", ",", "O", "]">>,
     <<"[", "O", ",", "O", "]">>,
     <<"[", "O", ",", "[", "]", "]">>,
     <<"[", "O", ",", "p", "]">>,
     <<"W", "[", "O", "]", "}">>}

Init ==
    /\ faiss_index = [f \in FileIds |-> NoEntry]
    /\ temp_files = {}
    /\ reports = {}
    /\ up = [u \in UploadIds |-> IdleUpload]
    /\ run = IdleRun
    /\ http = NoResponse

\* Requests are served one after the other.
Next ==
    \/ Quiet /\ \E u \in UploadIds : UploadBegin(u)
    \/ Quiet /\ \E f \in FileIds, q \in Queries : AnalyzeBegin(f, q)
    \/ Quiet /\ \E f \in FileIds : DeleteDocument(f)
    \/ \E u \in UploadIds : UploadSave(u)
    \/ \E u \in UploadIds : UploadExtract(u)
    \/ \E u \in UploadIds : UploadChunk(u)
    \/ \E u \in UploadIds : UploadIndex(u)
    \/ \E u \in UploadIds : UploadPersist(u)
    \/ \E u \in UploadIds : UploadSleep(u)
    \/ \E u \in UploadIds : UploadCleanup(u)
    \/ Retrieve
    \/ DetectErrors(SampleResponses)
    \/ GenerateReport
    \/ AnalyzeRespond

Spec == Init /\ [][Next]_vars

----------------------------------------------------------------------------
\* detect_errors and the rest of a run on contexts of every shape: Documents
\* of empty, whitespace-only and real text, up to MaxChunks of them.

FullIndex(f) ==
    LET store == add_documents(initialize_vector_store, chunk_documents(f, MaxChunks), f)
    IN DirEntry(store, store)

AtDetect(context) ==
    [IdleRun EXCEPT !.pc = "detect_errors",
                    !.state = [IdleRun.state EXCEPT !.file_id = 1, !.query = "custom",
                                                    !.context = context],
                    !.trace = <<"retrieve">>,
                    !.calls = <<"HuggingFaceEmbeddings", "embed_query">>,
                    !.had_index = TRUE,
                    !.twin = [q \in Queries |->
                        [state |-> [IdleRun.state EXCEPT !.file_id = 1, !.query = q,
                                                         !.context = context],
                         error |-> ""]]]

DrawnContexts == SeqsUpTo({Doc(c, 1) : c \in -1..1}, MaxChunks)

\* What retrieve can return from the index of an upload
RetrievedContexts == {SubSeq(chunk_documents(1, MaxChunks), 1, m) : m \in 0..MaxChunks}

InitAt(contexts) ==
    /\ faiss_index = [f \in FileIds |-> IF f = 1 THEN FullIndex(f) ELSE NoEntry]
    /\ temp_files = {}
    /\ reports = {}
    /\ up = [u \in UploadIds |-> IF u = 1 THEN DoneUpload ELSE IdleUpload]
    /\ run \in {AtDetect(c) : c \in contexts}
    /\ http = NoResponse

InitDetect == InitAt(DrawnContexts)

NextDetect ==
    \/ DetectErrors(SampleResponses)
    \/ GenerateReport
    \/ AnalyzeRespond

SpecDetect == InitDetect /\ [][NextDetect]_vars

\* The same with every response of at most MaxRespLen tokens and the longer
\* ones of LongResponses.
InitParse == InitAt(RetrievedContexts)

NextParse ==
    \/ DetectErrors(Responses \cup LongResponses)
    \/ GenerateReport
    \/ AnalyzeRespond

SpecParse == InitParse /\ [][NextParse]_vars

----------------------------------------------------------------------------
\* Analyses over persisted indexes, one of them of a document that splits
\* into more chunks than a search returns.

ManyChunks == K + MaxChunks

IndexOf(f, n) ==
    LET store == add_documents(initialize_vector_store, chunk_documents(f, n), f)
    IN DirEntry(store, store)

InitRetrieve ==
    /\ \E n \in 1..ManyChunks :
         faiss_index = [f \in FileIds |-> IF f = 1 THEN IndexOf(f, n)
                                          ELSE IF f \in UploadIds THEN IndexOf(f, MaxChunks)
                                          ELSE NoEntry]
    /\ temp_files = {}
    /\ reports = {}
    /\ up = [u \in UploadIds |-> DoneUpload]
    /\ run = IdleRun
    /\ http = NoResponse

NextRetrieve ==
    \/ Quiet /\ \E f \in FileIds, q \in Queries : AnalyzeBegin(f, q)
    \/ Retrieve
    \/ DetectErrors(SampleResponses)
    \/ GenerateReport
    \/ AnalyzeRespond

SpecRetrieve == InitRetrieve /\ [][NextRetrieve]_vars

----------------------------------------------------------------------------
\* Two concurrent uploads: the handler is a coroutine and index_documents runs
\* in a worker thread, so the steps of uploads in flight interleave freely.

\* The two uploads in flight together
Concurrent == {1, 2}

NextConc ==
    \/ \E u \in Concurrent : UploadBegin(u)
    \/ \E u \in Concurrent : UploadSave(u)
    \/ \E u \in Concurrent : UploadExtract(u)
    \/ \E u \in Concurrent : UploadChunk(u)
    \/ \E u \in Concurrent : UploadIndex(u)
    \/ \E u \in Concurrent : UploadPersist(u)
    \/ \E u \in Concurrent : UploadSleep(u)
    \/ \E u \in Concurrent : UploadCleanup(u)

SpecConc == Init /\ [][NextConc]_vars

----------------------------------------------------------------------------
\* Two index_documents calls on one file_id at the same time, each with its
\* own store and chunks: save_local writes index.faiss and then index.pkl of
\* the same directory, each write replacing the file that is there, and no
\* lock is taken.  A call that fails leaves what it wrote.

SameId == Min(UploadIds)

\* the store a writer built from its chunks
StoreOf(w) ==
    add_documents(initialize_vector_store, chunk_documents(SameId, up[w].n), SameId)

\* mkdir and faiss.write_index
SaveLocalFaiss(w) ==
    /\ up[w].pc = "index"
    /\ \E ok \in BOOLEAN :
         IF ok
         THEN /\ faiss_index' = [faiss_index EXCEPT
                                    ![SameId] = DirEntry(StoreOf(w), @.pkl)]
              /\ up' = [up EXCEPT ![w].pc = "persist"]
         ELSE /\ up' = [up EXCEPT ![w].pc = "failed"]
              /\ UNCHANGED faiss_index
    /\ UNCHANGED <<temp_files, reports, run, http>>

\* pickle.dump of the docstore into index.pkl
SaveLocalPkl(w) ==
    /\ up[w].pc = "persist"
    /\ \E ok \in BOOLEAN :
         IF ok
         THEN /\ faiss_index' = [faiss_index EXCEPT ![SameId].pkl = StoreOf(w)]
              /\ up' = [up EXCEPT ![w].pc = "written"]
         ELSE /\ up' = [up EXCEPT ![w].pc = "failed"]
              /\ UNCHANGED faiss_index
    /\ UNCHANGED <<temp_files, reports, run, http>>

InitSame ==
    /\ \E old \in {NoEntry, IndexOf(SameId, MaxChunks)} :
         faiss_index = [f \in FileIds |-> IF f = SameId THEN old ELSE NoEntry]
    /\ temp_files = {}
    /\ reports = {}
    /\ \E n \in [Concurrent -> 1..MaxChunks] :
         up = [u \in UploadIds |-> IF u \in Concurrent
                                   THEN [IdleUpload EXCEPT !.pc = "index", !.n = n[u]]
                                   ELSE IdleUpload]
    /\ run = IdleRun
    /\ http = NoResponse

NextSame ==
    \/ \E w \in Concurrent : SaveLocalFaiss(w)
    \/ \E w \in Concurrent : SaveLocalPkl(w)

SpecSame == InitSame /\ [][NextSame]_vars

----------------------------------------------------------------------------
\* Properties

Stages == <<"retrieve", "detect_errors", "generate_report">>

StageRan(node) == \E i \in 1..Len(run.trace) : run.trace[i] = node
LlmCalls == Len(SelectSeq(run.calls, LAMBDA c : c = "llm.invoke"))
Finished == run.pc \in {"END", "raised", "responded"}

\* detect_errors has run and the failure, if any, is its own
DetectIsLast == Len(run.trace) = 2 /\ run.trace[2] = "detect_errors"
DetectRaised == DetectIsLast /\ run.pc \in {"raised", "responded"} /\ run.error # ""
DetectReturned == StageRan("detect_errors") /\ ~DetectRaised

\* the text of the context is empty or whitespace
AllWhitespace == \A i \in 1..Len(run.state.context) : run.state.context[i].page_content <= 0

\* detect_errors invoked the model and the model answered (run.response)
GotResponse ==
    /\ StageRan("detect_errors")
    /\ ~AllWhitespace
    /\ ~(DetectRaised /\ run.error = "ProviderFailure")

\* C1: for a file_id with no index, analyze fails with NotFound before any
\* provider call: retrieve is the only stage that ran, it raised
\* FileNotFoundError, no embedding or LLM call was made, the answer is an error.
C1_NotFoundBeforeProvider ==
    (StageRan("retrieve") /\ ~run.had_index) =>
        /\ run.trace = <<"retrieve">>
        /\ run.pc \in {"raised", "responded"}
        /\ run.error = "FileNotFoundError"
        /\ run.calls = <<>>
        /\ run.pc = "responded" =>
              http.status = 500 /\ http.cause = "FileNotFoundError"

C1_Witness ==
    /\ run.pc = "responded" /\ ~run.had_index
    /\ run.state.file_id \in UploadIds
    /\ run.error = "FileNotFoundError" /\ http.status = 500

\* The first well-formed JSON array of Finding objects (or []) in a response:
\* where it starts (0 for none) and its findings.
FindingsArrayAt(s, i) ==
    /\ s[i] = "["
    /\ LET v == ParseValue(s, i)
       IN v.ok /\ \A n \in 1..Len(v.val.items) :
                     v.val.items[n].kind = "dict" /\ v.val.items[n].complete

FirstArray(s) ==
    LET starts == {i \in 1..Len(s) : FindingsArrayAt(s, i)}
    IN IF starts = {} THEN 0 ELSE Min(starts)

\* C2: a response that does not parse directly but contains a well-formed
\* JSON array of Findings (or []) somewhere, also after prose, is recovered:
\* detect_errors returns the findings of the first such array.
C2_RecoversEmbeddedArray ==
    (GotResponse /\ ~json_loads(strip(run.response)).ok /\ FirstArray(run.response) # 0) =>
        /\ DetectReturned
        /\ run.state.errors = ParseValue(run.response, FirstArray(run.response)).val.items

\* What the two tiers make of a response: the array they yield, if any
YieldedArray(content) ==
    LET json_str == strip(content)
        direct == json_loads(json_str)
        e == re_match(json_str)
    IN IF content = <<>> THEN NoParse
       ELSE IF direct.ok THEN (IF direct.val.kind = "list" THEN direct ELSE NoParse)
       ELSE IF e = 0 THEN NoParse
       ELSE json_loads(SubSeq(json_str, 1, e))

\* C3: when the model was invoked and its response is empty or yields no JSON
\* array under the direct parse or the fallback, detect_errors raises and the
\* request fails; an empty findings list comes only from the empty-context
\* short-circuit or from a response that yields the empty array.
C3_NoSilentEmptyFindings ==
    /\ (GotResponse /\ ~YieldedArray(run.response).ok) =>
          /\ DetectRaised
          /\ run.pc = "responded" => http.status = 500
    /\ (DetectReturned /\ run.state.errors = <<>>) =>
          \/ AllWhitespace
          \/ /\ YieldedArray(run.response).ok
             /\ YieldedArray(run.response).val.items = <<>>

C3_Witness ==
    /\ GotResponse /\ run.response = <<"p", "p">>
    /\ run.pc = "responded" /\ http.status = 500

\* C4: remove of a file_id whose index a successful upload persisted succeeds
\* and leaves no index for it.
C4_RemoveDeletesIndex ==
    (http.op = "delete" /\ http.indexed) =>
        http.status = 200 /\ ~exists(faiss_index[http.file_id])

\* C5: remove is idempotent: every remove succeeds, indexed or not, and the
\* second of two removes in a row changes nothing.
C5_RemoveIdempotent ==
    [][http'.op = "delete" =>
          /\ http'.status = 200
          /\ http'.again => ~exists(faiss_index[http'.file_id]) /\ faiss_index' = faiss_index]_vars

\* C6: every InvalidInput condition of an upload is answered with a client
\* error (400).
C6_InvalidInputIsClientError ==
    (http.op = "upload" /\ http.cause \in InvalidInputCauses) => http.status = 400

\* C7: a failed stage ends the run: no stage runs after it and the answer is
\* an error without findings or report path; a success answer means all three
\* stages returned, the report text is not empty and the report is on disk.
C7_FailureAbortsRun ==
    /\ run.error # "" =>
          /\ run.pc \in {"raised", "responded"}
          /\ run.pc = "responded" =>
                http.status = 500 /\ http.errors = <<>> /\ http.report_path = <<>>
    /\ (run.pc = "responded" /\ http.status = 200) =>
          /\ run.trace = Stages
          /\ run.error = ""
          /\ run.state.report # ""
          /\ http.errors = run.state.errors
          /\ http.report_path = ReportPath(run.state.file_id)
          /\ run.state.file_id \in reports

C7_Witness ==
    /\ run.pc = "responded" /\ http.status = 500
    /\ run.trace = Stages
    /\ run.error = "Empty report response from Groq API"
    /\ run.state.errors # <<>>

\* C8: the stages run in the order retrieve, detect_errors, generate_report,
\* each at most once: what has run is always a prefix of that order, a node
\* about to run follows exactly its predecessors, a run at END ran all three.
C8_FixedStageOrder ==
    /\ Len(run.trace) <= 3
    /\ run.trace = SubSeq(Stages, 1, Len(run.trace))
    /\ \A n \in 1..3 : run.pc = Stages[n] => Len(run.trace) = n - 1
    /\ run.pc = "END" => run.trace = Stages

C8_Witness == run.pc = "END" /\ run.trace = Stages

\* C9: on an empty context (no chunks, or chunks of empty or whitespace-only
\* text) detect_errors returns no findings and does not invoke the model.
C9_EmptyContextShortCircuit ==
    (StageRan("detect_errors") /\ AllWhitespace) =>
        /\ DetectReturned
        /\ run.state.errors = <<>>
        /\ run.response = <<>>
        /\ LlmCalls = (IF StageRan("generate_report") THEN 1 ELSE 0)

C9_Witness ==
    /\ run.pc = "generate_report"
    /\ Len(run.state.context) = 2
    /\ run.state.context[1].page_content < 0
    /\ run.state.errors = <<>> /\ LlmCalls = 0

\* retrieve returned no chunk from an index that exists
ZeroChunks ==
    /\ run.had_index
    /\ Len(run.trace) >= 2 \/ run.pc = "detect_errors"
    /\ run.state.context = <<>>

\* C10 as stated: when retrieve returns zero chunks the run does not fail and
\* a report is produced.
C10_ZeroChunksNeverFails ==
    (ZeroChunks /\ Finished) =>
        run.error = "" /\ run.trace = Stages /\ run.state.file_id \in reports

\* C10 as amended: when retrieve returns zero chunks no stage is skipped and
\* neither retrieve nor detect_errors fails: detect_errors runs and returns no
\* findings, then generate_report runs; the run fails only if generate_report
\* itself raises, and otherwise ends with the report on disk.
C10_ZeroChunksReachReport ==
    ZeroChunks =>
        \/ run.pc = "detect_errors"
        \/ /\ run.trace[2] = "detect_errors"
           /\ run.state.errors = <<>>
           /\ \/ run.pc = "generate_report"
              \/ /\ run.trace = Stages
                 /\ run.error \in {"", "ProviderFailure", "RenderFailure",
                                   "Empty report response from Groq API"}
                 /\ run.error = "" =>
                       /\ run.pc \in {"END", "responded"}
                       /\ run.state.report_path = ReportPath(run.state.file_id)
                       /\ run.state.file_id \in reports

C10_Witness ==
    /\ ZeroChunks /\ run.pc = "responded" /\ http.status = 200
    /\ http.errors = <<>> /\ run.state.file_id \in reports

\* an element of the array is not an object or lacks one of the three fields
BadElement(items) ==
    \E n \in 1..Len(items) : items[n].kind # "dict" \/ ~items[n].complete

\* C11: every findings list detect_errors returns holds only objects with
\* term, error and location; when the parsed array has an element that is
\* not an object or lacks a field, the whole detection fails with the
\* malformed-output error and no element, good or bad, is returned.
C11_OnlyCompleteFindings ==
    /\ ~BadElement(run.state.errors)
    /\ (GotResponse /\ YieldedArray(run.response).ok
          /\ BadElement(YieldedArray(run.response).val.items)) =>
          /\ DetectRaised
          /\ run.error = "Malformed error object in response"
          /\ run.state.errors = <<>>
          /\ run.pc = "responded" => (http.status = 500 /\ http.errors = <<>>)

C11_Witness ==
    /\ run.response = <<"[", "O", ",", "B", "]">>
    /\ run.pc = "responded" /\ DetectRaised
    /\ http.status = 500 /\ http.errors = <<>>

C13_BoundedRetry ==
    \A u \in UploadIds :
      LET r == up[u]
      IN /\ r.attempt < MaxAttempts
         /\ Len(r.errs) <= MaxAttempts
         /\ r.waited = RetryDelay * r.attempt
         /\ r.pc \in {"index", "persist"} => Len(r.errs) = r.attempt
         /\ r.pc = "sleep" =>
               Len(r.errs) = r.attempt + 1 /\ Len(r.errs) < MaxAttempts
         /\ (r.pc = "cleanup" /\ r.status = 200) =>
               /\ Len(r.errs) = r.attempt
               /\ Loadable(faiss_index[u])
         /\ (r.pc = "cleanup" /\ r.cause = "indexing") =>
               /\ Len(r.errs) = MaxAttempts
               /\ r.waited = RetryDelay * (MaxAttempts - 1)
               /\ r.detail = r.errs[MaxAttempts]
               /\ r.status = 500

C13_Witness ==
    \E u \in UploadIds :
      /\ up[u].pc = "cleanup" /\ up[u].cause = "indexing"
      /\ up[u].errs = <<"provider", "mkdir", "pkl">>
      /\ up[u].detail = "pkl" /\ up[u].waited = 2 * RetryDelay

\* The run is about a file_id whose index a successful upload persisted
Indexed == run.pc # "idle" /\ Loadable(faiss_index[run.state.file_id])

\* What can fail in a run once the index is there: a provider call, the
\* model's response to the detection prompt, the report text, the rendering
ProviderSideFailures ==
    {"ProviderFailure",
     "Empty response from Groq API", "Response is not a JSON list",
     "No valid JSON list found in response", "JSONDecodeError",
     "Malformed error object in response",
     "Empty report response from Groq API", "RenderFailure"}

\* C14 as stated: after a successful upload, every analysis of that file_id
\* completes without failure, with a findings list and a report path.
C14_IndexedAnalyzeCompletes ==
    (Indexed /\ Finished) =>
        /\ run.error = ""
        /\ run.pc = "responded" => http.status = 200

\* C14: after a successful upload, an analysis of that file_id never fails
\* for want of the index (no NotFound, no storage failure): it fails only
\* when a provider call fails, the detection response is rejected, the
\* report text is empty or the rendering fails.  When the detection response
\* is usable detect_errors does not fail, and a run without failure went
\* through the three stages, answers 200 with the findings list and the
\* report path, and the report is there.
C14_IndexedAnalyzeOutcome ==
    Indexed =>
        /\ run.error # "" => run.error \in ProviderSideFailures
        /\ (GotResponse /\ ParseResponse(run.response).ok) => ~DetectRaised
        /\ (Finished /\ run.error = "") =>
              /\ run.trace = Stages
              /\ run.state.file_id \in reports
              /\ run.pc = "responded" =>
                    /\ http.status = 200
                    /\ http.errors = run.state.errors
                    /\ http.report_path = ReportPath(run.state.file_id)

C14_Witness ==
    /\ Indexed /\ run.pc = "responded" /\ http.status = 200
    /\ http.errors = <<Finding>>
    /\ http.report_path = ReportPath(run.state.file_id)

\* C15: a successful analyze answers with the report path that its file_id
\* alone determines, the report is at that path when the answer is given,
\* and no step of any operation (the cleanup of an upload, a remove, a later
\* analysis) takes a report away.
C15_ReportPersists ==
    [][/\ reports \subseteq reports'
       /\ (http'.op = "analyze" /\ http'.status = 200) =>
             /\ http'.report_path = ReportPath(http'.file_id)
             /\ http'.file_id \in reports']_vars

C15_Witness ==
    /\ http.op = "delete" /\ http.file_id \in reports
    /\ \A u \in UploadIds : up[u].pc = "done"

\* C16: the context retrieve returns for a file_id has at most K chunks, and
\* each of them is a chunk indexed for that file_id: its metadata names the
\* file_id asked for, it has the text of a chunk and it is stored in the
\* index of that file_id.  No chunk of another document and no entry that
\* was never part of the document comes back.
C16_RetrievalIsolated ==
    LET context == run.state.context
        file_id == run.state.file_id
    IN /\ Len(context) <= K
       /\ \A i \in 1..Len(context) :
            /\ context[i].file_id = file_id
            /\ context[i].page_content >= 1
            /\ \E j \in 1..Len(faiss_index[file_id].pkl) :
                  faiss_index[file_id].pkl[j] = context[i]

C16_Witness ==
    /\ run.pc = "responded" /\ http.status = 200
    /\ Len(Matching(faiss_index[run.state.file_id].pkl, run.state.file_id)) > K
    /\ Len(run.state.context) = K

\* The State fields a step may change, by where the run is: a stage its own
\* fields, the handler none once the graph has been invoked; a new request
\* starts from a new State.
OwnFields(pc) ==
    CASE pc = "retrieve" -> {"context"}
      [] pc = "detect_errors" -> {"errors"}
      [] pc = "generate_report" -> {"report", "report_path"}
      [] pc \in {"idle", "responded"} -> DOMAIN IdleRun.state
      [] OTHER -> {}

\* C17: each stage changes only its own fields of the State (retrieve the
\* context, detect_errors the errors, generate_report the report and the
\* report path); every other field, file_id and query among them, is carried
\* unchanged from START to END.
C17_StagesOwnFields ==
    [][\A field \in DOMAIN run.state :
          run'.state[field] # run.state[field] => field \in OwnFields(run.pc)]_vars

C17_Witness ==
    /\ run.pc = "END" /\ run.trace = Stages
    /\ run.state.query = "custom" /\ run.state.file_id \in UploadIds
    /\ run.state.context # <<>> /\ run.state.errors = <<Finding>>
    /\ run.state.report = "report"

\* C18: initialize returns an index without documents, so the index
\* persisted for a file_id holds exactly the chunks given to index, each
\* tagged with that file_id, and nothing else.
C18_IndexHoldsExactlyChunks ==
    \A u \in UploadIds :
      Loadable(faiss_index[u]) =>
         \E n \in 1..MaxChunks : faiss_index[u].pkl = chunk_documents(u, n)

\* how often a provider call was made in the run
Calls(name) == Len(SelectSeq(run.calls, LAMBDA c : c = name))

\* C19: no provider call is retried during an analysis.  detect_errors
\* invokes the LLM once (not at all on a blank context) and generate_report
\* once, whatever the response; a failed call or a rejected response ends
\* the run without a second invocation; the embedding model is built and
\* queried at most once.
C19_NoRetryInAnalysis ==
    LET detect == IF StageRan("detect_errors") /\ ~AllWhitespace THEN 1 ELSE 0
        report == IF StageRan("generate_report") THEN 1 ELSE 0
    IN /\ Calls("llm.invoke") = detect + report
       /\ Calls("HuggingFaceEmbeddings") <= 1
       /\ Calls("embed_query") <= 1
       /\ run.error # "" => run.pc \in {"raised", "responded"}

C19_Witness ==
    /\ run.pc = "responded" /\ DetectRaised
    /\ run.error = "No valid JSON list found in response"
    /\ Calls("llm.invoke") = 1

\* What an upload running alone has on disk under its file_id, from its own
\* record: nothing before the first mkdir, the directory after a failed
\* mkdir-only attempt, index.faiss once an attempt wrote it, both files
\* after the attempt that succeeded.
AloneEntry(u) ==
    LET r == up[u]
        store == add_documents(initialize_vector_store, chunk_documents(u, r.n), u)
        wrote == r.pc = "persist" \/ r.status = 200
                    \/ \E i \in 1..Len(r.errs) : r.errs[i] = "pkl"
        made == wrote \/ \E i \in 1..Len(r.errs) : r.errs[i] = "mkdir"
    IN IF r.status = 200 THEN DirEntry(store, store)
       ELSE IF wrote THEN DirEntry(store, <<>>)
       ELSE IF made THEN DirEntry(<<>>, <<>>)
       ELSE NoEntry

\* The index and the temporary file of an upload in flight are those of the
\* upload running alone
AsAlone ==
    \A u \in UploadIds :
      up[u].pc \notin {"idle", "done"} =>
         /\ faiss_index[u] = AloneEntry(u)
         /\ u \in temp_files <=> up[u].pc # "open"

\* C20: concurrent uploads with different file_ids are independent in every
\* interleaving.  A step of one upload changes neither the record, nor the
\* persisted index, nor the temporary file of another; the index under each
\* file_id is at every point the one the upload would have running alone;
\* and each upload is answered with its own status and cause.
C20_UploadsIndependent ==
    [][/\ \A u \in UploadIds :
            up'[u] = up[u] =>
               /\ faiss_index'[u] = faiss_index[u]
               /\ u \in temp_files' <=> u \in temp_files
       /\ AsAlone'
       /\ \A u \in UploadIds :
            (up[u].pc = "cleanup" /\ up'[u].pc = "done") =>
               /\ http'.file_id = u
               /\ http'.status = up[u].status /\ http'.cause = up[u].cause
               /\ (http'.status = 200) = Loadable(faiss_index'[u])]_vars

\* one upload has failed for good while the other, begun before it ended,
\* is answered with success
C20_Witness ==
    /\ http.op = "upload" /\ http.status = 200 /\ http.file_id = 2
    /\ up[1].pc = "cleanup" /\ up[1].cause = "indexing"
    /\ Loadable(faiss_index[2]) /\ ~Loadable(faiss_index[1])

\* The errors only the fallback raises
FallbackErrors == {"No valid JSON list found in response", "JSONDecodeError"}

\* what detect_errors does once it holds an array: its elements or the
\* malformed-output error
OutcomeOf(items) ==
    IF BadElement(items)
    THEN DetectRaised /\ run.error = "Malformed error object in response"
    ELSE DetectReturned /\ run.state.errors = items

\* C23: the pattern-match fallback is attempted exactly when the direct parse
\* of the trimmed response raises a parse error.  A response that is valid
\* JSON but no array fails at once with the not-a-list error; one that is
\* an array is judged as parsed, never through the fallback; one that does
\* not parse gets the fallback's outcome (no match, or the matched text).
C23_FallbackIffParseError ==
    (GotResponse /\ run.response # <<>>) =>
        LET json_str == strip(run.response)
            direct == json_loads(json_str)
            e == re_match(json_str)
        IN /\ (direct.ok /\ direct.val.kind # "list") =>
                 DetectRaised /\ run.error = "Response is not a JSON list"
           /\ (direct.ok /\ direct.val.kind = "list") => OutcomeOf(direct.val.items)
           /\ (~direct.ok /\ e = 0) =>
                 DetectRaised /\ run.error = "No valid JSON list found in response"
           /\ (~direct.ok /\ e # 0) =>
                 LET again == json_loads(SubSeq(json_str, 1, e))
                 IN IF again.ok THEN OutcomeOf(again.val.items)
                    ELSE DetectRaised /\ run.error = "JSONDecodeError"
           /\ run.error \in FallbackErrors <=> (~direct.ok /\ DetectRaised
                                                  /\ run.error # "Malformed error object in response")

C23_Witness ==
    /\ run.response = <<"W", "[", "O", "]", "}">>
    /\ run.pc = "responded" /\ DetectRaised
    /\ run.error = "Response is not a JSON list" /\ http.status = 500

\* C22: the query of the caller does not influence the analysis.  At every
\* point of a run, the run that is given any other query, on the same
\* file_id, index and provider behaviour, has the same context, the same
\* errors, the same report path and the same failure; only its query field
\* differs.
C22_QueryDoesNotInfluence ==
    run.pc # "idle" =>
       \A q \in Queries :
          LET t == run.twin[q]
          IN /\ t.state.query = q
             /\ t.state.file_id = run.state.file_id
             /\ t.state.context = run.state.context
             /\ t.state.errors = run.state.errors
             /\ t.state.report = run.state.report
             /\ t.state.report_path = run.state.report_path
             /\ t.error = run.error

C22_Witness ==
    /\ run.pc = "responded" /\ http.status = 200
    /\ run.state.query = "custom"
    /\ \E q \in Queries :
         /\ q # run.state.query
         /\ run.twin[q].state.query = q
         /\ run.twin[q].state.context = run.state.context
         /\ Len(run.state.context) = MaxChunks
         /\ run.twin[q].state.errors = <<Finding>>
         /\ run.twin[q].state.report_path = ReportPath(run.state.file_id)

\* C21: two index_documents calls on the same file_id without a lock end
\* last-writer-wins: once both have written, the persisted index is the
\* complete index of one of them (index.faiss and index.pkl of the same
\* store), that of the writer that finished last, never a mixture of the two.
C21_LastWriterWins ==
    (\A w \in Concurrent : up[w].pc = "written") =>
        \E w \in Concurrent :
           /\ faiss_index[SameId] = DirEntry(StoreOf(w), StoreOf(w))
           /\ Loadable(faiss_index[SameId])

============================================================================
